---- MODULE Spec2Model ----
(***************************************************************************)
(* Model of the hnv fetch pipeline: HackerNews::get_top_videos, the item   *)
(* tasks State::get_item, the progress Counter, the classifier is_video    *)
(* and the sqlite-backed Cache (src/src/hacker_news.rs, src/src/cache.rs). *)
(***************************************************************************)
EXTENDS Naturals, Sequences, FiniteSets

(* ---------------------------------------------------------------------- *)
(* Bounds of the model                                                     *)
(* ---------------------------------------------------------------------- *)

\* Batch size. The source sets BATCH_SIZE = 20 (hacker_news.rs:17); the model
\* runs the same loop with a small batch so that the interleavings of one
\* batch of concurrent tasks can be enumerated.
BATCH_SIZE == 2

\* Longest identifier list the list endpoint returns in the model.
MaxN == 3

\* Most rows the cache table holds in the cache-only specification.
MaxRows == 3

(* ---------------------------------------------------------------------- *)
(* Data                                                                    *)
(* ---------------------------------------------------------------------- *)

\* Identifiers the list endpoint may return (i32 in the source); two values
\* are enough for a list to repeat an identifier and to hold distinct ones.
Ids == {1, 2}

BASE_URL == "https://hacker-news.firebaseio.com/v0"

\* format!("{}/item/{}.json", BASE_URL, id)
ItemUrl(id) == <<BASE_URL, "/item/", id, ".json">>

\* Option<T>: None is <<>>, Some(x) is <<x>>.
None == <<>>

Some(x) == <<x>>

\* A payload text, by what serde_json makes of it: whether it parses as a
\* string-keyed mapping, whether the mapping has a "url" field, whether that
\* field is a string, and the string as a sequence of text fragments.
PVideo == [parses |-> TRUE, hasUrl |-> TRUE, urlIsStr |-> TRUE, url |-> <<"HTTPS://YOUTU.BE/", "x">>]

PTagged == [parses |-> TRUE, hasUrl |-> TRUE, urlIsStr |-> TRUE, url |-> <<"[video]", " test">>]

PPlain == [parses |-> TRUE, hasUrl |-> FALSE, urlIsStr |-> FALSE, url |-> <<>>]

PBad == [parses |-> FALSE, hasUrl |-> FALSE, urlIsStr |-> FALSE, url |-> <<>>]

\* What the item endpoint may answer in the model.
Payloads == {PVideo, PPlain, PBad}

\* str::to_ascii_lowercase on one text fragment.
to_ascii_lowercase(t) ==
  CASE t = "HTTPS://YOUTU.BE/" -> "https://youtu.be/"
    [] t = "HTTP://YOUTU.BE/" -> "http://youtu.be/"
    [] t = "HTTPS://WWW.YOUTUBE.COM/" -> "https://www.youtube.com/"
    [] t = "HTTP://WWW.YOUTUBE.COM/" -> "http://www.youtube.com/"
    [] t = "[VIDEO]" -> "[video]"
    [] OTHER -> t

\* str::contains, at the granularity of text fragments.
contains(text, needle) == \E k \in 1..Len(text) : text[k] = needle

\* is_video without the to_ascii_lowercase of line 146.
is_videoCaseSensitive(json) ==
  IF ~json.parses THEN [ok |-> FALSE, val |-> FALSE]
  ELSE IF json.hasUrl /\ json.urlIsStr
       THEN LET item == json.url
            IN  IF \/ contains(item, "http://www.youtube.com/")
                   \/ contains(item, "https://www.youtube.com/")
                   \/ contains(item, "http://youtu.be/")
                   \/ contains(item, "https://youtu.be/")
                THEN [ok |-> TRUE, val |-> TRUE]
                ELSE IF contains(item, "[video]")
                     THEN [ok |-> TRUE, val |-> TRUE]
                     ELSE [ok |-> TRUE, val |-> FALSE]
       ELSE [ok |-> TRUE, val |-> FALSE]

\* is_video: Err on a payload that does not parse, otherwise Ok(bool).
is_video(json) ==
  IF ~json.parses THEN [ok |-> FALSE, val |-> FALSE]
  ELSE IF json.hasUrl /\ json.urlIsStr
       THEN LET item == [k \in 1..Len(json.url) |-> to_ascii_lowercase(json.url[k])]
            IN  IF \/ contains(item, "http://www.youtube.com/")
                   \/ contains(item, "https://www.youtube.com/")
                   \/ contains(item, "http://youtu.be/")
                   \/ contains(item, "https://youtu.be/")
                THEN [ok |-> TRUE, val |-> TRUE]
                ELSE IF contains(item, "[video]")
                     THEN [ok |-> TRUE, val |-> TRUE]
                     ELSE [ok |-> TRUE, val |-> FALSE]
       ELSE [ok |-> TRUE, val |-> FALSE]

(* ---------------------------------------------------------------------- *)
(* Cache: the table is the sequence of its rows in rowid order             *)
(* ---------------------------------------------------------------------- *)

\* Rows of a table whose url column equals url, in rowid order.
RowsFor(rows, url) == SelectSeq(rows, LAMBDA r : r.url = url)

\* SELECT response FROM cache WHERE url = ? ; the first row, if any.
CacheGet(rows, url) ==
  IF RowsFor(rows, url) = <<>> THEN None ELSE Some(RowsFor(rows, url)[1].response)

\* CacheSet as an upsert: the row of a url already stored is overwritten.
CacheSetUpsert(rows, url, response) ==
  IF RowsFor(rows, url) = <<>>
  THEN Append(rows, [url |-> url, response |-> response])
  ELSE [k \in 1..Len(rows) |->
          IF rows[k].url = url THEN [url |-> url, response |-> response] ELSE rows[k]]

\* INSERT INTO cache (url, response) VALUES (?1, ?2)
CacheSet(rows, url, response) == Append(rows, [url |-> url, response |-> response])

(* ---------------------------------------------------------------------- *)
(* State                                                                   *)
(* ---------------------------------------------------------------------- *)

VARIABLES
  pc,            \* where get_top_videos stands
  top_stories,   \* the identifier list once fetched
  i,             \* start of the current batch, the step_by loop variable
  spawned,       \* where the batch's iterator stands: positions 1..spawned are behind it
  tasks,         \* list position -> the get_item task launched for it
  completion,    \* the current JoinSet's tasks in the order they finished
  joined,        \* how many of them join_next has returned
  result,        \* the Vec<String> being built
  result_pos,    \* history: the list position each element of result came from
  counter,       \* the Counter behind the RwLock
  counter_given, \* whether the caller passed Some(counter)
  cache,         \* rows of the cache table
  cache0,        \* history: the table when the call began
  last_set,      \* history: url -> the response of the latest completed Cache::set
  last_get,      \* history: the latest completed Cache::get, its url and its answer
  poll_pc,       \* where the progress loop of main stands
  pb,            \* whether main has created its progress bar
  chan,          \* the connection's channel: the closures sent and not yet run
  waiting,       \* the callers awaiting the reply to their conn.call
  serial,        \* history: the closures the connection thread ran, in order
  iv_json,       \* the text handed to is_video
  iv_ret         \* what is_video returned for it

\* The variables outside one get_top_videos call and the table: main's
\* progress loop, the connection's channel, a lone is_video call.
others == <<poll_pc, pb, chan, waiting, serial, iv_json, iv_ret>>

\* The variables of one get_top_videos call and of the table.
pipeline == <<pc, top_stories, i, spawned, tasks, completion, joined, result, result_pos, counter, counter_given, cache, cache0, last_set, last_get>>

vars == <<pipeline, others>>

Positions == 1..MaxN

Urls == {ItemUrl(id) : id \in Ids}

\* Every identifier list of length 0..MaxN.
Lists == UNION {[1..n -> Ids] : n \in 0..MaxN}

\* A task that has not been spawned.
NoTask == [pc |-> "none", json |-> None, ret |-> [ok |-> FALSE, val |-> None], log |-> <<>>]

\* #[derive(Default)] Counter
DefaultCounter == [pending |-> 0, done |-> 0, total |-> 0]

\* Tables the database file may hold when the process starts: it survives
\* restarts, so an earlier run may have stored an item already.
InitCaches == {<<>>, <<[url |-> ItemUrl(1), response |-> PVideo]>>}

NoSet == [u \in Urls |-> None]

NoGet == [valid |-> FALSE, url |-> ItemUrl(1), ret |-> None]

\* No is_video call has returned.
NoRet == [called |-> FALSE, ok |-> FALSE, val |-> FALSE]

\* main before its loop, an idle connection, no lone is_video call.
OthersInit ==
  /\ poll_pc = "read"
  /\ pb = FALSE
  /\ chan = <<>>
  /\ waiting = {}
  /\ serial = <<>>
  /\ iv_json = None
  /\ iv_ret = NoRet

PipelineInit ==
  /\ pc = "fetch_list"
  /\ top_stories = <<>>
  /\ i = 0
  /\ spawned = 0
  /\ tasks = [p \in Positions |-> NoTask]
  /\ completion = <<>>
  /\ joined = 0
  /\ result = <<>>
  /\ result_pos = <<>>
  /\ counter = DefaultCounter
  /\ counter_given = TRUE   \* the call of main.rs:35, get_top_videos(Some(c))
  /\ cache \in InitCaches
  /\ cache0 = cache
  /\ last_set = NoSet
  /\ last_get = NoGet

Init == PipelineInit /\ OthersInit

(* ---------------------------------------------------------------------- *)
(* Counter                                                                 *)
(* ---------------------------------------------------------------------- *)

\* if let Some(counter) = counter.as_ref() { counter.write().unwrap().pending() }
CounterPending(c) == IF counter_given THEN [c EXCEPT !.pending = @ + 1] ELSE c

\* CounterDone that also takes the task off pending, as a count of tasks in
\* flight would.
CounterDoneDecrementsPending(c) ==
  IF counter_given THEN [c EXCEPT !.done = @ + 1, !.pending = @ - 1] ELSE c

\* if let Some(counter) = counter.as_ref() { counter.write().unwrap().done() }
CounterDone(c) == IF counter_given THEN [c EXCEPT !.done = @ + 1] ELSE c

\* counter.write().unwrap().total = top_stories.len()
CounterSetTotal(c, n) == IF counter_given THEN [c EXCEPT !.total = n] ELSE c

(* ---------------------------------------------------------------------- *)
(* get_top_videos                                                          *)
(* ---------------------------------------------------------------------- *)

Min(a, b) == IF a <= b THEN a ELSE b

\* Batch number of a list position (0-based batches of BATCH_SIZE positions).
BatchOf(p) == (p - 1) \div BATCH_SIZE

\* BatchEnd with a batch one identifier too long: take(BATCH_SIZE + 1).
BatchEndWide(start) == Min(start + BATCH_SIZE + 1, Len(top_stories))

\* One past the last position of the batch starting at i:
\* top_stories.iter().skip(i).take(BATCH_SIZE)
BatchEnd(start) == Min(start + BATCH_SIZE, Len(top_stories))

\* NextStart stepping one short of a batch, so that batches overlap.
NextStartShort(start) == start + BATCH_SIZE - 1

\* The next value of i: (0..len).step_by(BATCH_SIZE).
NextStart(start) == start + BATCH_SIZE

\* The loop head of for i in (0..len).step_by(BATCH_SIZE).
LoopHead(start) == IF start < Len(top_stories) THEN "spawn" ELSE "ok"

\* FetchTopStoriesErr with the error noticed only after total was written.
FetchTopStoriesErrAfterTotal ==
  /\ pc = "fetch_list"
  /\ pc' = "err"
  /\ counter' = CounterSetTotal(counter, 1)
  /\ UNCHANGED <<top_stories, i, spawned, tasks, completion, joined, result, result_pos, counter_given, cache, cache0, last_set, last_get, others>>

\* The list request succeeds and the body parses as Vec<i32>.
FetchTopStoriesOk ==
  /\ pc = "fetch_list"
  /\ \E list \in Lists : top_stories' = list
  /\ pc' = "set_total"
  /\ UNCHANGED <<i, spawned, tasks, completion, joined, result, result_pos, counter, counter_given, cache, cache0, last_set, last_get, others>>

\* send() or json() fails: the ? returns the error.
FetchTopStoriesErr ==
  /\ pc = "fetch_list"
  /\ pc' = "err"
  /\ UNCHANGED <<top_stories, i, spawned, tasks, completion, joined, result, result_pos, counter, counter_given, cache, cache0, last_set, last_get, others>>

\* Lines 73-82: total is written, result is created, the batch loop begins.
SetTotal ==
  /\ pc = "set_total"
  /\ counter' = CounterSetTotal(counter, Len(top_stories))
  /\ result' = <<>>
  /\ i' = 0
  /\ spawned' = 0
  /\ pc' = LoopHead(0)
  /\ UNCHANGED <<top_stories, tasks, completion, joined, result_pos, counter_given, cache, cache0, last_set, last_get, others>>

\* tasks.spawn(arc.clone().get_item(counter.clone(), *id)) for the next
\* identifier of the batch; after the last one the join loop begins.
Spawn ==
  /\ pc = "spawn"
  /\ spawned < BatchEnd(i)
  /\ spawned' = spawned + 1
  /\ tasks' = [tasks EXCEPT ![spawned + 1] = [NoTask EXCEPT !.pc = "spawned"]]
  /\ pc' = IF spawned + 1 = BatchEnd(i) THEN "join" ELSE "spawn"
  /\ UNCHANGED <<top_stories, i, completion, joined, result, result_pos, counter, counter_given, cache, cache0, last_set, last_get, others>>

\* A task join_next has returned: the JoinSet drops it, its output stays
\* known to the caller.
Joined(t) == [NoTask EXCEPT !.pc = "joined", !.ret = t.ret, !.json = t.json]

\* JoinPick handing out the task that finished last.
JoinPickLast == completion[Len(completion)]

\* The element join_next hands out: the finished task that completed first.
JoinPick == completion[joined + 1]

\* JoinNext that returns the error of a failed task from get_top_videos.
JoinNextAbortOnErr ==
  /\ pc = "join"
  /\ joined < Len(completion)
  /\ LET p == JoinPick
         r == tasks[p].ret
     IN  /\ tasks[p].pc = "finished"
         /\ tasks' = [tasks EXCEPT ![p] = Joined(@)]
         /\ joined' = joined + 1
         /\ pc' = IF r.ok THEN pc ELSE "err"
         /\ IF r.ok /\ r.val # None
            THEN /\ result' = Append(result, r.val[1])
                 /\ result_pos' = Append(result_pos, p)
            ELSE UNCHANGED <<result, result_pos>>
  /\ UNCHANGED <<top_stories, i, spawned, completion, counter, counter_given, cache, cache0, last_set, last_get, others>>

\* while let Some(item) = tasks.join_next().await: a finished task is
\* returned, and its payload is pushed when it is Ok(Some(item)).
JoinNext ==
  /\ pc = "join"
  /\ joined < Len(completion)
  /\ LET p == JoinPick
         r == tasks[p].ret
     IN  /\ tasks[p].pc = "finished"
         /\ tasks' = [tasks EXCEPT ![p] = Joined(@)]
         /\ joined' = joined + 1
         /\ IF r.ok /\ r.val # None
            THEN /\ result' = Append(result, r.val[1])
                 /\ result_pos' = Append(result_pos, p)
            ELSE UNCHANGED <<result, result_pos>>
  /\ UNCHANGED <<pc, top_stories, i, spawned, completion, counter, counter_given, cache, cache0, last_set, last_get, others>>

\* BatchDone leaving the join loop as soon as one task of the batch was joined.
BatchDoneEarly ==
  /\ pc = "join"
  /\ \E p \in (i + 1)..BatchEnd(i) : tasks[p].pc = "joined"
  /\ i' = NextStart(i)
  /\ pc' = LoopHead(NextStart(i))
  /\ spawned' = IF NextStart(i) < Len(top_stories) THEN NextStart(i) ELSE spawned
  /\ completion' = <<>>
  /\ joined' = 0
  /\ UNCHANGED <<top_stories, tasks, result, result_pos, counter, counter_given, cache, cache0, last_set, last_get, others>>

\* join_next returns None once the JoinSet is empty: the next batch, or Ok(result).
BatchDone ==
  /\ pc = "join"
  /\ \A p \in (i + 1)..BatchEnd(i) : tasks[p].pc = "joined"
  /\ i' = NextStart(i)
  /\ pc' = LoopHead(NextStart(i))
  /\ spawned' = IF NextStart(i) < Len(top_stories) THEN NextStart(i) ELSE spawned
  /\ completion' = <<>>
  /\ joined' = 0
  /\ UNCHANGED <<top_stories, tasks, result, result_pos, counter, counter_given, cache, cache0, last_set, last_get, others>>

(* ---------------------------------------------------------------------- *)
(* State::get_item, one task per list position                             *)
(* ---------------------------------------------------------------------- *)

TaskId(p) == top_stories[p]

\* The task's next step, with an event added to its log.
Step(t, to, event) == [t EXCEPT !.pc = to, !.log = Append(@, event)]

\* The task returns r: it is finished, and the JoinSet learns of it.
Return(t, r, event) == [Step(t, "finished", event) EXCEPT !.ret = r]

Err == [ok |-> FALSE, val |-> None]

Ok(v) == [ok |-> TRUE, val |-> v]

\* What the task does with the outcome of is_video(json), lines 115-120 and
\* 126-137: Err leaves through ?, true records done and returns the payload,
\* false falls through to the done at the end and returns None.
Classified(t, json) ==
  IF ~is_video(json).ok THEN Return(t, Err, "is_video")
  ELSE IF is_video(json).val
       THEN Return(Step(t, t.pc, "is_video"), Ok(Some(json)), "done")
       ELSE Return(Step(t, t.pc, "is_video"), Ok(None), "done")

\* ClassifiedCounter without the done() of lines 134-136: only a match counts.
ClassifiedCounterMatchOnly(c, json) ==
  IF is_video(json).ok /\ is_video(json).val THEN CounterDone(c) ELSE c

\* The counter after that same outcome.
ClassifiedCounter(c, json) == IF is_video(json).ok THEN CounterDone(c) ELSE c

\* Lines 106-108: the task starts to run and records pending.
TaskPending(p) ==
  /\ tasks[p].pc = "spawned"
  /\ counter' = CounterPending(counter)
  /\ tasks' = [tasks EXCEPT ![p] = Step(@, "get", "pending")]
  /\ UNCHANGED <<pc, top_stories, i, spawned, completion, joined, result, result_pos, counter_given, cache, cache0, last_set, last_get, others>>

\* TaskCacheGet that fetches the item again although the cache answered.
TaskCacheGetRefetch(p) ==
  /\ tasks[p].pc = "get"
  /\ LET cached_response == CacheGet(cache, ItemUrl(TaskId(p)))
     IN  tasks' = [tasks EXCEPT ![p] =
                     IF cached_response # None
                     THEN [Step(@, "fetch", "get_hit") EXCEPT !.json = cached_response]
                     ELSE Step(@, "fetch", "get_miss")]
  /\ UNCHANGED <<pc, top_stories, i, spawned, completion, joined, result, result_pos, counter, counter_given, cache, cache0, last_set, last_get, others>>

\* Line 111, self.cache.get(&url) answers: a hit keeps the cached text, a
\* miss goes on to the remote fetch.
TaskCacheGet(p) ==
  /\ tasks[p].pc = "get"
  /\ LET cached_response == CacheGet(cache, ItemUrl(TaskId(p)))
     IN  tasks' = [tasks EXCEPT ![p] =
                     IF cached_response # None
                     THEN [Step(@, "hit", "get_hit") EXCEPT !.json = cached_response]
                     ELSE Step(@, "fetch", "get_miss")]
  /\ UNCHANGED <<pc, top_stories, i, spawned, completion, joined, result, result_pos, counter, counter_given, cache, cache0, last_set, last_get, others>>

\* Line 111, the storage call fails: the ? returns the error.
TaskCacheGetErr(p) ==
  /\ tasks[p].pc = "get"
  /\ tasks' = [tasks EXCEPT ![p] = Return(@, Err, "get_err")]
  /\ completion' = Append(completion, p)
  /\ UNCHANGED <<pc, top_stories, i, spawned, joined, result, result_pos, counter, counter_given, cache, cache0, last_set, last_get, others>>

\* Lines 113-120 and 134-137: the cached text is classified.
TaskClassifyCached(p) ==
  /\ tasks[p].pc = "hit"
  /\ tasks' = [tasks EXCEPT ![p] = Classified(@, @.json[1])]
  /\ counter' = ClassifiedCounter(counter, tasks[p].json[1])
  /\ completion' = Append(completion, p)
  /\ UNCHANGED <<pc, top_stories, i, spawned, joined, result, result_pos, counter_given, cache, cache0, last_set, last_get, others>>

\* Line 123, the item request answers with a body.
TaskFetch(p) ==
  /\ tasks[p].pc = "fetch"
  /\ \E json_text \in Payloads :
       tasks' = [tasks EXCEPT ![p] = [Step(@, "set", "fetch") EXCEPT !.json = Some(json_text)]]
  /\ UNCHANGED <<pc, top_stories, i, spawned, completion, joined, result, result_pos, counter, counter_given, cache, cache0, last_set, last_get, others>>

\* Line 123, send() or text() fails: the ? returns the error.
TaskFetchErr(p) ==
  /\ tasks[p].pc = "fetch"
  /\ tasks' = [tasks EXCEPT ![p] = Return(@, Err, "fetch_err")]
  /\ completion' = Append(completion, p)
  /\ UNCHANGED <<pc, top_stories, i, spawned, joined, result, result_pos, counter, counter_given, cache, cache0, last_set, last_get, others>>

\* TaskCacheSet that stores only a payload the classifier can parse.
TaskCacheSetIfParses(p) ==
  /\ tasks[p].pc = "set"
  /\ cache' = IF is_video(tasks[p].json[1]).ok
              THEN CacheSet(cache, ItemUrl(TaskId(p)), tasks[p].json[1])
              ELSE cache
  /\ tasks' = [tasks EXCEPT ![p] = Step(@, "miss", "set")]
  /\ UNCHANGED <<pc, top_stories, i, spawned, completion, joined, result, result_pos, counter, counter_given, cache0, last_set, last_get, others>>

\* Line 125, self.cache.set(&url, &json_text) inserts the row.
TaskCacheSet(p) ==
  /\ tasks[p].pc = "set"
  /\ cache' = CacheSet(cache, ItemUrl(TaskId(p)), tasks[p].json[1])
  /\ tasks' = [tasks EXCEPT ![p] = Step(@, "miss", "set")]
  /\ UNCHANGED <<pc, top_stories, i, spawned, completion, joined, result, result_pos, counter, counter_given, cache0, last_set, last_get, others>>

\* Line 125, the storage call fails: the ? returns the error.
TaskCacheSetErr(p) ==
  /\ tasks[p].pc = "set"
  /\ tasks' = [tasks EXCEPT ![p] = Return(@, Err, "set_err")]
  /\ completion' = Append(completion, p)
  /\ UNCHANGED <<pc, top_stories, i, spawned, joined, result, result_pos, counter, counter_given, cache, cache0, last_set, last_get, others>>

\* Lines 126-137: the fetched text is classified.
TaskClassifyFetched(p) ==
  /\ tasks[p].pc = "miss"
  /\ tasks' = [tasks EXCEPT ![p] = Classified(@, @.json[1])]
  /\ counter' = ClassifiedCounter(counter, tasks[p].json[1])
  /\ completion' = Append(completion, p)
  /\ UNCHANGED <<pc, top_stories, i, spawned, joined, result, result_pos, counter_given, cache, cache0, last_set, last_get, others>>

(* ---------------------------------------------------------------------- *)
(* Specification of one get_top_videos call                                *)
(* ---------------------------------------------------------------------- *)

Next ==
  \/ FetchTopStoriesOk
  \/ FetchTopStoriesErr
  \/ SetTotal
  \/ Spawn
  \/ JoinNext
  \/ BatchDone
  \/ \E p \in Positions : TaskPending(p)
  \/ \E p \in Positions : TaskCacheGet(p)
  \/ \E p \in Positions : TaskCacheGetErr(p)
  \/ \E p \in Positions : TaskClassifyCached(p)
  \/ \E p \in Positions : TaskFetch(p)
  \/ \E p \in Positions : TaskFetchErr(p)
  \/ \E p \in Positions : TaskCacheSet(p)
  \/ \E p \in Positions : TaskCacheSetErr(p)
  \/ \E p \in Positions : TaskClassifyFetched(p)

Spec == Init /\ [][Next]_vars

(* ---------------------------------------------------------------------- *)
(* Specification of the Cache alone: callers call get and set, one call    *)
(* at a time, on a table of at most MaxRows rows                           *)
(* ---------------------------------------------------------------------- *)

\* Cache::set(url, response) completes.
CacheSetCall(url, response) ==
  /\ Len(cache) < MaxRows
  /\ cache' = CacheSet(cache, url, response)
  /\ last_set' = [last_set EXCEPT ![url] = Some(response)]
  /\ last_get' = NoGet
  /\ UNCHANGED <<pc, top_stories, i, spawned, tasks, completion, joined, result, result_pos, counter, counter_given, cache0, others>>

\* CacheGetCall that inserts an empty entry for a key it does not find.
CacheGetCallInsertsOnMiss(url) ==
  /\ last_get' = [valid |-> TRUE, url |-> url, ret |-> CacheGet(cache, url)]
  /\ cache' = IF CacheGet(cache, url) = None THEN CacheSet(cache, url, PBad) ELSE cache
  /\ UNCHANGED <<pc, top_stories, i, spawned, tasks, completion, joined, result, result_pos, counter, counter_given, cache0, last_set, others>>

\* Cache::get(url) completes with the answer of the SELECT.
CacheGetCall(url) ==
  /\ last_get' = [valid |-> TRUE, url |-> url, ret |-> CacheGet(cache, url)]
  /\ UNCHANGED <<pc, top_stories, i, spawned, tasks, completion, joined, result, result_pos, counter, counter_given, cache, cache0, last_set, others>>

CacheNext ==
  \/ \E url \in Urls, response \in Payloads : CacheSetCall(url, response)
  \/ \E url \in Urls : CacheGetCall(url)

CacheSpec == Init /\ [][CacheNext]_vars

(* ---------------------------------------------------------------------- *)
(* main: the progress loop beside the spawned get_top_videos job           *)
(* ---------------------------------------------------------------------- *)

\* Counter::counter swapping its first two fields.
CounterCounterSwapped(c) == <<c.done, c.pending, c.total>>

\* Counter::counter: (pending, done, total), read under one read lock.
CounterCounter(c) == <<c.pending, c.done, c.total>>

\* job.is_finished(): the spawned get_top_videos call has returned.
JobIsFinished == pc \in {"ok", "err"}

\* Lines 42-56: the counter is read; with a bar, or with total non-zero, the
\* bar is set and the loop goes on to the is_finished test; otherwise the
\* loop sleeps and continues from the top.
PollRead ==
  /\ poll_pc = "read"
  /\ LET t == CounterCounter(counter)[3]
     IN  IF pb \/ t # 0
         THEN pb' = TRUE /\ poll_pc' = "check"
         ELSE pb' = pb /\ poll_pc' = "sleep_continue"
  /\ UNCHANGED <<pipeline, chan, waiting, serial, iv_json, iv_ret>>

\* Lines 57-61: break when the job is finished, otherwise sleep.
PollCheck ==
  /\ poll_pc = "check"
  /\ poll_pc' = IF JobIsFinished THEN "stopped" ELSE "sleep"
  /\ UNCHANGED <<pipeline, pb, chan, waiting, serial, iv_json, iv_ret>>

\* The one-second sleep of line 53 or line 61 ends: the loop's next pass.
PollWake ==
  /\ poll_pc \in {"sleep", "sleep_continue"}
  /\ poll_pc' = "read"
  /\ UNCHANGED <<pipeline, pb, chan, waiting, serial, iv_json, iv_ret>>

Poll == PollRead \/ PollCheck \/ PollWake

MainNext ==
  \/ Next
  \/ PollRead
  \/ PollCheck
  \/ PollWake

\* The runtime keeps running the job and its tasks, and the loop's sleeps end.
MainSpec == Init /\ [][MainNext]_vars /\ WF_vars(Next) /\ WF_vars(Poll)

(* ---------------------------------------------------------------------- *)
(* Specification of the connection: concurrent callers of Cache::get and   *)
(* Cache::set, each call one closure sent to the thread owning the handle  *)
(* ---------------------------------------------------------------------- *)

\* Most calls made in one run of the connection specification.
MaxCalls == 3

\* Tasks calling the cache at the same time.
Callers == {"a", "b"}

\* self.conn.call(move |conn| ...) of Cache::get or Cache::set: the closure
\* is sent down the channel and the caller awaits the reply.
ConnCall(c, op, url, response) ==
  /\ c \notin waiting
  /\ Len(chan) + Len(serial) < MaxCalls
  /\ chan' = Append(chan, [caller |-> c, op |-> op, url |-> url, response |-> response])
  /\ waiting' = waiting \cup {c}
  /\ UNCHANGED <<pipeline, poll_pc, pb, serial, iv_json, iv_ret>>

\* ConnExec answering a get from the table as it was when the connection was
\* opened.
ConnExecStaleRead ==
  /\ chan # <<>>
  /\ LET req == Head(chan)
         ret == IF req.op = "get" THEN CacheGet(cache0, req.url) ELSE None
     IN  /\ cache' = IF req.op = "set" THEN CacheSet(cache, req.url, req.response[1]) ELSE cache
         /\ serial' = Append(serial, [caller |-> req.caller, op |-> req.op, url |-> req.url, response |-> req.response, ret |-> ret])
         /\ waiting' = waiting \ {req.caller}
  /\ chan' = Tail(chan)
  /\ UNCHANGED <<pc, top_stories, i, spawned, tasks, completion, joined, result, result_pos, counter, counter_given, cache0, last_set, last_get, poll_pc, pb, iv_json, iv_ret>>

\* The connection thread takes the oldest closure, runs it on the handle
\* (the SELECT of Cache::get, the INSERT of Cache::set) and replies.
ConnExec ==
  /\ chan # <<>>
  /\ LET req == Head(chan)
         ret == IF req.op = "get" THEN CacheGet(cache, req.url) ELSE None
     IN  /\ cache' = IF req.op = "set" THEN CacheSet(cache, req.url, req.response[1]) ELSE cache
         /\ serial' = Append(serial, [caller |-> req.caller, op |-> req.op, url |-> req.url, response |-> req.response, ret |-> ret])
         /\ waiting' = waiting \ {req.caller}
  /\ chan' = Tail(chan)
  /\ UNCHANGED <<pc, top_stories, i, spawned, tasks, completion, joined, result, result_pos, counter, counter_given, cache0, last_set, last_get, poll_pc, pb, iv_json, iv_ret>>

ConnNext ==
  \/ \E c \in Callers, url \in Urls : ConnCall(c, "get", url, None)
  \/ \E c \in Callers, url \in Urls, response \in Payloads : ConnCall(c, "set", url, Some(response))
  \/ ConnExec

ConnSpec == Init /\ [][ConnNext]_vars

(* ---------------------------------------------------------------------- *)
(* Specification of is_video alone, over a bounded set of payload texts    *)
(* ---------------------------------------------------------------------- *)

\* Longest url, in text fragments, of the payloads is_video is tried on.
MaxUrlLen == 2

\* Text fragments a url is made of: the five needles, some of them in other
\* letter case, and fragments that hold no needle.
Fragments ==
  { "http://www.youtube.com/", "https://www.youtube.com/", "http://youtu.be/",
    "https://youtu.be/", "[video]", "HTTPS://YOUTU.BE/", "HTTP://WWW.YOUTUBE.COM/",
    "[VIDEO]", "https://example.com/", "youtube.com/" }

Texts == UNION {[1..n -> Fragments] : n \in 0..MaxUrlLen}

\* A payload whose url field is not a string, as in {"url":123}.
PNumUrl == [parses |-> TRUE, hasUrl |-> TRUE, urlIsStr |-> FALSE, url |-> <<>>]

Jsons ==
  {PBad, PPlain, PNumUrl, PVideo, PTagged}
    \cup {[parses |-> TRUE, hasUrl |-> TRUE, urlIsStr |-> TRUE, url |-> u] : u \in Texts}

IsVideoInit ==
  /\ PipelineInit
  /\ poll_pc = "read"
  /\ pb = FALSE
  /\ chan = <<>>
  /\ waiting = {}
  /\ serial = <<>>
  /\ iv_json \in {Some(j) : j \in Jsons}
  /\ iv_ret = NoRet

\* The call is_video(&json) returns.
IsVideoCall ==
  /\ iv_json # None
  /\ ~iv_ret.called
  /\ iv_ret' = [called |-> TRUE, ok |-> is_video(iv_json[1]).ok, val |-> is_video(iv_json[1]).val]
  /\ UNCHANGED <<pipeline, poll_pc, pb, chan, waiting, serial, iv_json>>

IsVideoNext == IsVideoCall

IsVideoSpec == IsVideoInit /\ [][IsVideoNext]_vars

(* ---------------------------------------------------------------------- *)
(* Properties                                                              *)
(* ---------------------------------------------------------------------- *)

\* Whether event e is in a task's log, and how often.
Logged(t, e) == \E k \in 1..Len(t.log) : t.log[k] = e

Count(t, e) == Cardinality({k \in 1..Len(t.log) : t.log[k] = e})

\* Whether event a comes before event b in a task's log.
Before(t, a, b) == \E k, l \in 1..Len(t.log) : k < l /\ t.log[k] = a /\ t.log[l] = b

\* Tasks spawned and not yet finished.
InFlight == {p \in Positions : tasks[p].pc \notin {"none", "finished", "joined"}}

\* A task that has begun to run: it recorded pending, or went further.
Started(p) == tasks[p].pc \notin {"none", "spawned"}

Finished(p) == tasks[p].pc \in {"finished", "joined"}

N == Len(top_stories)

\* C1: at most BATCH_SIZE get_item tasks are spawned and not yet finished, in
\* every reachable state of one get_top_videos call.
C1_AtMostBatchInFlight == Cardinality(InFlight) <= BATCH_SIZE

\* A full batch is in flight, in a list longer than one batch.
C1_Witness == Cardinality(InFlight) = BATCH_SIZE /\ N > BATCH_SIZE

\* C2: no task of a later batch is spawned or started before every task of
\* each earlier batch has finished, by success or by failure.
C2_BatchBoundary ==
  \A p, q \in Positions :
    (BatchOf(p) < BatchOf(q) /\ tasks[q].pc # "none") => (p <= N /\ Finished(p))

\* A task of the second batch runs after a task of the first one failed.
C2_Witness ==
  \E p, q \in Positions :
    BatchOf(p) < BatchOf(q) /\ Started(q) /\ Finished(p) /\ ~tasks[p].ret.ok

\* C3 as claimed: when get_top_videos returns Ok, done = total, whatever the
\* item tasks returned.
C3_OkImpliesDoneEqTotal == (pc = "ok" /\ counter_given) => counter.done = counter.total

\* C4 as claimed: a finished task that reached the cache-hit or the cache-miss
\* path has recorded done exactly once.
C4_DoneExactlyOnce ==
  \A p \in Positions :
    (tasks[p].pc = "finished" /\ (Logged(tasks[p], "get_hit") \/ Logged(tasks[p], "get_miss")))
      => Count(tasks[p], "done") = 1

\* C5 as claimed: a Cache::get(k) that follows a completed Cache::set(k, v),
\* with no set in between, returns v, also when k had an earlier value.
C5_GetReturnsLatestSet ==
  (last_get.valid /\ last_set[last_get.url] # None) => last_get.ret = last_set[last_get.url]

\* C6: a task that classifies a fetched payload fetched it, then stored it,
\* then classified it, and the table holds the raw payload under the item's
\* key whatever the classification gave, a parse failure included.
C6_StoreBeforeClassify ==
  \A p \in Positions :
    LET t == tasks[p] IN
    (t.pc \in {"miss", "finished"} /\ Logged(t, "get_miss") /\ (t.pc = "miss" \/ Logged(t, "is_video")))
      => /\ Before(t, "fetch", "set")
         /\ ~Before(t, "is_video", "set")
         /\ \E k \in 1..Len(cache) :
              cache[k] = [url |-> ItemUrl(TaskId(p)), response |-> t.json[1]]

\* A task missed, fetched a payload that does not parse, failed to classify
\* it, and the payload is in the table.
C6_Witness ==
  \E p \in Positions :
    /\ tasks[p].pc = "finished"
    /\ Logged(tasks[p], "get_miss")
    /\ Logged(tasks[p], "is_video")
    /\ ~tasks[p].ret.ok
    /\ \E k \in 1..Len(cache) : cache[k] = [url |-> ItemUrl(TaskId(p)), response |-> PBad]

\* C7: a task whose Cache::get returned an entry issues no item fetch and no
\* Cache::set, and the payload it classifies and yields is the cached one.
C7_HitSkipsFetchAndSet ==
  \A p \in Positions :
    LET t == tasks[p] IN
    Logged(t, "get_hit")
      => /\ ~Logged(t, "fetch") /\ ~Logged(t, "fetch_err")
         /\ ~Logged(t, "set") /\ ~Logged(t, "set_err")
         /\ t.pc \in {"hit", "finished"}
         /\ t.json = CacheGet(cache, ItemUrl(TaskId(p)))
         /\ (t.pc = "finished" /\ t.ret.ok /\ t.ret.val # None) => t.ret.val = t.json

\* A task answered from the cache has yielded the cached payload.
C7_Witness ==
  \E p \in Positions :
    /\ tasks[p].pc = "finished"
    /\ Logged(tasks[p], "get_hit")
    /\ tasks[p].ret = Ok(CacheGet(cache, ItemUrl(TaskId(p))))
    /\ tasks[p].ret.val # None

\* Every task of the call has been joined and returned Ok.
AllSucceeded == pc = "ok" /\ \A p \in 1..N : tasks[p].pc = "joined" /\ tasks[p].ret.ok

\* The indices of result that came from list position p.
ResultOf(p) == {k \in 1..Len(result_pos) : result_pos[k] = p}

\* C8: when the call returns Ok and every item task succeeded, result holds
\* exactly one payload, the task's own, for each list position whose payload
\* is a match and none for a non-match; the counter is (N, N, N); and every
\* identifier's request key has a row in the table.
C8_AllSucceeded ==
  AllSucceeded =>
    /\ Len(result) = Len(result_pos)
    /\ \A p \in 1..N :
         /\ tasks[p].json # None
         /\ is_video(tasks[p].json[1]).ok
         /\ is_video(tasks[p].json[1]).val => Cardinality(ResultOf(p)) = 1
         /\ ~is_video(tasks[p].json[1]).val => ResultOf(p) = {}
         /\ \A k \in ResultOf(p) : result[k] = tasks[p].json[1]
    /\ \A k \in 1..Len(result_pos) : result_pos[k] \in 1..N
    /\ counter_given => counter = [pending |-> N, done |-> N, total |-> N]
    /\ \A p \in 1..N : CacheGet(cache, ItemUrl(TaskId(p))) # None

\* A call over a list longer than one batch returned with every task
\* succeeded, some payloads matching and some not.
C8_Witness ==
  /\ AllSucceeded
  /\ N > BATCH_SIZE
  /\ Len(result) > 0
  /\ Len(result) < N

\* The tasks of the current JoinSet that join_next has returned with a
\* payload, in the order they finished.
Yielded ==
  SelectSeq(SubSeq(completion, 1, joined),
            LAMBDA p : tasks[p].ret.ok /\ tasks[p].ret.val # None)

\* The part of result that came from the batch starting at i.
ResultOfBatch == SelectSeq(result_pos, LAMBDA p : BatchOf(p) = i \div BATCH_SIZE)

\* C9: in result every payload of an earlier batch precedes every payload of
\* a later batch, and the payloads of one batch stand in the order in which
\* their tasks finished.
C9_BatchThenCompletionOrder ==
  /\ \A k, l \in 1..Len(result_pos) :
       k < l => BatchOf(result_pos[k]) <= BatchOf(result_pos[l])
  /\ pc \in {"spawn", "join"} => ResultOfBatch = Yielded

\* The first batch's payloads stand against identifier order, before a
\* payload of the second batch.
C9_Witness ==
  \E k, l, m \in 1..Len(result_pos) :
    /\ k < l /\ l < m
    /\ result_pos[k] > result_pos[l]
    /\ BatchOf(result_pos[k]) = BatchOf(result_pos[l])
    /\ BatchOf(result_pos[l]) < BatchOf(result_pos[m])

\* C10: when the identifier-list fetch fails, the call has returned the error
\* with no result, no task was launched, the table is as it was, and the
\* counter is untouched, total still unset.
C10_ListFetchFails ==
  pc = "err" =>
    /\ result = <<>>
    /\ spawned = 0
    /\ \A p \in Positions : tasks[p] = NoTask
    /\ cache = cache0
    /\ counter = DefaultCounter

\* The list fetch has failed.
C10_Witness == pc = "err" /\ top_stories = <<>>

\* C11 as claimed: once the get_top_videos job has finished, with Ok or with
\* the list fetch's error, the progress loop of main eventually stops.
C11_PollStops == JobIsFinished ~> (poll_pc = "stopped")

\* The table after the first k closures of serial ran one at a time on cache0.
RECURSIVE TableAfter(_)
TableAfter(k) ==
  IF k = 0 THEN cache0
  ELSE IF serial[k].op = "set"
       THEN CacheSet(TableAfter(k - 1), serial[k].url, serial[k].response[1])
       ELSE TableAfter(k - 1)

\* C12: under concurrent Cache::get and Cache::set calls the table and every
\* answer are those of the calls run one at a time in the order the
\* connection thread ran them, a caller has at most one call outstanding (so
\* that order keeps each caller's own), and every row a get can see is a
\* whole row.
C12_Serialized ==
  /\ cache = TableAfter(Len(serial))
  /\ \A k \in 1..Len(serial) :
       serial[k].ret = IF serial[k].op = "get"
                       THEN CacheGet(TableAfter(k - 1), serial[k].url)
                       ELSE None
  /\ \A k \in 1..Len(cache) : cache[k].url \in Urls /\ cache[k].response \in Payloads
  /\ \A c \in Callers :
       Cardinality({k \in 1..Len(chan) : chan[k].caller = c}) = (IF c \in waiting THEN 1 ELSE 0)

\* Both callers have a call outstanding at once, a set and a get of the same
\* key, after an earlier set of that key has run.
C12_Witness ==
  /\ Len(chan) = 2
  /\ chan[1].op = "set" /\ chan[2].op = "get" /\ chan[1].url = chan[2].url
  /\ \E k \in 1..Len(serial) : serial[k].op = "set" /\ serial[k].url = chan[1].url

\* The fragments whose lower-cased text holds one of the five needles
\* 'http://www.youtube.com/', 'https://www.youtube.com/', 'http://youtu.be/',
\* 'https://youtu.be/' and '[video]'.
NeedleFragments ==
  { "http://www.youtube.com/", "https://www.youtube.com/", "http://youtu.be/",
    "https://youtu.be/", "[video]", "HTTPS://YOUTU.BE/", "HTTP://WWW.YOUTUBE.COM/",
    "[VIDEO]" }

\* C13: for a payload that parses as a mapping, is_video returns Ok(true)
\* exactly when url is present, is a string and, lower-cased, contains one of
\* the five needles; an absent or non-string url gives Ok(false).
C13_IsVideoIff ==
  (iv_ret.called /\ iv_json[1].parses) =>
    /\ iv_ret.ok
    /\ iv_ret.val <=>
         /\ iv_json[1].hasUrl
         /\ iv_json[1].urlIsStr
         /\ \E k \in 1..Len(iv_json[1].url) : iv_json[1].url[k] \in NeedleFragments

\* is_video has returned true for a url that holds a needle in upper case
\* only, after a fragment that holds none.
C13_Witness ==
  /\ iv_ret.called /\ iv_ret.ok /\ iv_ret.val
  /\ iv_json[1].url = <<"https://example.com/", "[VIDEO]">>

\* C14: Cache::get leaves the table as it is, and a get of a key that has no
\* row, no set of it having ever completed, answers Ok(None).
C14_GetIsPure ==
  /\ [][(\E url \in Urls : last_get' = [valid |-> TRUE, url |-> url, ret |-> CacheGet(cache, url)])
          => cache' = cache]_vars
  /\ []((last_get.valid /\ RowsFor(cache, last_get.url) = <<>>) => last_get.ret = None)

\* A get of a key never set has answered None on a table that holds rows of
\* another key.
C14_Witness ==
  /\ last_get.valid
  /\ last_get.ret = None
  /\ last_set[last_get.url] = None
  /\ Len(cache) > 1

\* C15: pending, done and total never decrease; total changes only in the
\* one step that follows the list fetch, which sets it to the length of the
\* list while no task has been launched, and that step is never taken again.
C15_CounterMonotone ==
  /\ [][/\ counter'.pending >= counter.pending
        /\ counter'.done >= counter.done
        /\ counter'.total >= counter.total]_vars
  /\ [][counter'.total # counter.total
          => /\ pc = "set_total"
             /\ counter'.total = Len(top_stories)
             /\ \A p \in Positions : tasks[p].pc = "none"]_vars
  /\ [][pc' = "set_total" => pc \in {"fetch_list", "set_total"}]_vars
  /\ [](pc \in {"fetch_list", "set_total"} => (counter = DefaultCounter /\ \A p \in Positions : tasks[p].pc = "none"))
  /\ [](pc \in {"spawn", "join", "ok"} => counter.total = N)

\* A run over more than one batch has ended with total = N and tasks done.
C15_Witness == pc = "ok" /\ N > BATCH_SIZE /\ counter.total = N /\ counter.done > 0

\* C16: a task that returned Err adds nothing to result, every position's
\* task is still run and joined, get_top_videos fails only on the list fetch
\* and otherwise returns Ok with exactly the payloads of the tasks that
\* returned Ok(Some).
C16_FailureAsNonMatch ==
  /\ pc = "err" => (top_stories = <<>> /\ \A p \in Positions : tasks[p].pc = "none")
  /\ \A p \in Positions : (tasks[p].pc = "joined" /\ ~tasks[p].ret.ok) => ResultOf(p) = {}
  /\ pc = "ok" =>
       \A p \in 1..N :
         /\ tasks[p].pc = "joined"
         /\ (tasks[p].ret.ok /\ tasks[p].ret.val # None) => Cardinality(ResultOf(p)) = 1
         /\ ~(tasks[p].ret.ok /\ tasks[p].ret.val # None) => ResultOf(p) = {}
         /\ \A k \in ResultOf(p) : result[k] = tasks[p].ret.val[1]

\* The call returned Ok although a task of the first batch failed, with the
\* payload of another task of that batch and one of a later batch.
C16_Witness ==
  /\ pc = "ok"
  /\ \E p, q, r \in 1..N :
       /\ BatchOf(p) = 0 /\ ~tasks[p].ret.ok
       /\ BatchOf(q) = 0 /\ ResultOf(q) # {}
       /\ BatchOf(r) > 0 /\ ResultOf(r) # {}

\* C17: tasks are launched one per list position, in list order, each
\* position once; a batch starts at a multiple of BATCH_SIZE, holds
\* BATCH_SIZE positions unless it is the last, which holds 1..BATCH_SIZE;
\* at Ok every position 1..N has had its task, also for N = 0.
C17_OneTaskPerPosition ==
  /\ []({p \in Positions : tasks[p].pc # "none"} = 1..spawned)
  /\ [](i % BATCH_SIZE = 0)
  /\ [](pc = "join" =>
          /\ spawned = BatchEnd(i)
          /\ spawned - i \in 1..BATCH_SIZE
          /\ spawned < N => spawned - i = BATCH_SIZE)
  /\ [](pc = "ok" => (spawned = N /\ \A p \in 1..N : tasks[p].pc = "joined"))
  /\ [][spawned' # spawned
          => /\ spawned' = spawned + 1
             /\ tasks[spawned'].pc = "none"
             /\ tasks'[spawned'].pc = "spawned"
             /\ \A q \in Positions \ {spawned'} : tasks'[q] = tasks[q]]_vars
  /\ [][\A p \in Positions :
          tasks[p].pc # "none" => tasks'[p].pc \notin {"none", "spawned"} \/ tasks'[p] = tasks[p]]_vars

\* A call over a list that is not a whole number of batches has returned Ok.
C17_Witness == pc = "ok" /\ N > BATCH_SIZE /\ N % BATCH_SIZE # 0 /\ spawned = N

\* C18 as claimed: the table holds at most one row for each request key.
C18_OneEntryPerKey == \A u \in Urls : Len(RowsFor(cache, u)) <= 1

\* C19: what Counter::counter returns under the read lock, in any state of a
\* run, satisfies done <= pending <= total.
C19_SnapshotOrdered ==
  LET snap == CounterCounter(counter)
  IN  snap[2] <= snap[1] /\ snap[1] <= snap[3]

\* A snapshot taken in mid-run: some tasks done, more started, not all.
C19_Witness ==
  LET snap == CounterCounter(counter)
  IN  0 < snap[2] /\ snap[2] < snap[1] /\ snap[1] < snap[3]

\* C20: no row is removed or overwritten, and the answer of Cache::get for a
\* key that has one stays the same across every later call, sets included.
C20_FirstValueStays ==
  /\ [][Len(cache') >= Len(cache) /\ SubSeq(cache', 1, Len(cache)) = cache]_vars
  /\ [][\A u \in Urls :
          CacheGet(cache, u) # None => CacheGet(cache', u) = CacheGet(cache, u)]_vars

\* A get has answered the first value of a key after a set gave the key
\* another value.
C20_Witness ==
  /\ last_get.valid
  /\ last_get.ret # None
  /\ last_set[last_get.url] # None
  /\ last_set[last_get.url] # last_get.ret

====
